---- MODULE Spec2Model ----
(***************************************************************************)
(* keepup-helm-scraper: image collection, rule matching and version        *)
(* normalization (src/src/main.go, package rules).                         *)
(*                                                                         *)
(* Strings that the program inspects character by character (image         *)
(* references, raw versions, application names) are sequences of           *)
(* one-character strings.  A compiled regular expression is a sequence of  *)
(* atoms [cs |-> set of characters, rep |-> "one" | "plus"]; matching      *)
(* follows Go's regexp semantics for that fragment: unanchored, leftmost   *)
(* start, greedy repetition with backtracking.                             *)
(***************************************************************************)
EXTENDS Integers, Sequences, FiniteSets, Bags, TLC

\* ------------------------------------------------------------------ bounds
MaxRawLen == 7
MaxRules == 2

\* -------------------------------------------------------- characters, regex
Digit == {"0", "1", "2", "3", "4", "5", "6", "7", "8", "9"}

One(cs) == [cs |-> cs, rep |-> "one"]
Plus(cs) == [cs |-> cs, rep |-> "plus"]

\* number of consecutive characters of cs in s starting at pos
RECURSIVE RunLen(_, _, _)
RunLen(cs, s, pos) ==
    IF pos <= Len(s) /\ s[pos] \in cs THEN 1 + RunLen(cs, s, pos + 1) ELSE 0

NoMatch == [ok |-> FALSE, ends |-> <<>>]

\* match atoms k..Len(pat) of pat against s from pos; ends[j] is the position
\* following the text consumed by the j-th of these atoms
RECURSIVE MatchEnds(_, _, _, _)
RECURSIVE TryRun(_, _, _, _, _)
MatchEnds(pat, k, s, pos) ==
    IF k > Len(pat) THEN [ok |-> TRUE, ends |-> <<>>]
    ELSE IF pat[k].rep = "one"
         THEN IF pos <= Len(s) /\ s[pos] \in pat[k].cs
              THEN LET r == MatchEnds(pat, k + 1, s, pos + 1)
                   IN IF r.ok THEN [ok |-> TRUE, ends |-> <<pos + 1>> \o r.ends]
                      ELSE NoMatch
              ELSE NoMatch
         ELSE TryRun(pat, k, s, pos, RunLen(pat[k].cs, s, pos))

\* greedy repetition: the longest run first, then shorter ones
TryRun(pat, k, s, pos, n) ==
    IF n = 0 THEN NoMatch
    ELSE LET r == MatchEnds(pat, k + 1, s, pos + n)
         IN IF r.ok THEN [ok |-> TRUE, ends |-> <<pos + n>> \o r.ends]
            ELSE TryRun(pat, k, s, pos, n - 1)

\* leftmost start position of a match of pat in s, 0 when there is none
RECURSIVE FindFrom(_, _, _)
FindFrom(pat, s, p) ==
    IF p > Len(s) + 1 THEN 0
    ELSE IF MatchEnds(pat, 1, s, p).ok THEN p
    ELSE FindFrom(pat, s, p + 1)

MatchString(pat, s) == FindFrom(pat, s, 1) # 0

\* text of the leftmost match, the empty string when there is none
FindString(pat, s) ==
    LET p == FindFrom(pat, s, 1)
    IN IF p = 0 THEN <<>>
       ELSE LET r == MatchEnds(pat, 1, s, p)
            IN IF Len(pat) = 0 THEN <<>>
               ELSE SubSeq(s, p, r.ends[Len(pat)] - 1)

\* versionRe = (\d+)\.(\d+)(\.\d+)?  : the mandatory part and the optional group
versionReCore == <<Plus(Digit), One({"."}), Plus(Digit)>>
versionReOpt == <<One({"."}), Plus(Digit)>>

\* versionRe.FindStringSubmatch: nil, or the three groups of the leftmost match
FindStringSubmatch(s) ==
    LET p == FindFrom(versionReCore, s, 1)
    IN IF p = 0 THEN [nil |-> TRUE, m1 |-> <<>>, m2 |-> <<>>, m3 |-> <<>>]
       ELSE LET e == MatchEnds(versionReCore, 1, s, p).ends
                g == MatchEnds(versionReOpt, 1, s, e[3])
            IN [nil |-> FALSE,
                m1 |-> SubSeq(s, p, e[1] - 1),
                m2 |-> SubSeq(s, e[2], e[3] - 1),
                m3 |-> IF g.ok THEN SubSeq(s, e[3], g.ends[2] - 1) ELSE <<>>]

\* the default patch without its separator
DefaultPatch_NoDot == <<"0">>

DefaultPatch == <<".", "0">>

\* the patch group is used as found, no default
normalizeSemVer_NoDefault(imageVer) ==
    LET m == FindStringSubmatch(imageVer)
    IN IF m.nil THEN [v |-> <<>>, ok |-> FALSE]
       ELSE [v |-> m.m1 \o <<".">> \o m.m2 \o m.m3, ok |-> TRUE]

normalizeSemVer(imageVer) ==
    LET m == FindStringSubmatch(imageVer)
    IN IF m.nil THEN [v |-> <<>>, ok |-> FALSE]
       ELSE LET patch == IF m.m3 = <<>> THEN DefaultPatch ELSE m.m3
            IN [v |-> m.m1 \o <<".">> \o m.m2 \o patch, ok |-> TRUE]

\* ------------------------------------------------------------ rule loading
\* a record of the rules document; a regex source either compiles to pat or not
Src(pat) == [valid |-> TRUE, pat |-> pat]
BadSrc == [valid |-> FALSE, pat |-> <<>>]

AppRedis == <<"r", "e", "d", "i", "s">>
AppCache == <<"c", "a", "c", "h", "e">>
AppBadD == <<"b", "d">>
AppBadV == <<"b", "v">>

\* detect "r", version "r:\d+\.\d+\.\d+"
RecRedis ==
    [ApplicationName |-> AppRedis,
     DetectionRegex |-> Src(<<One({"r"})>>),
     VersionRegex |-> Src(<<One({"r"}), One({":"}), Plus(Digit), One({"."}),
                            Plus(Digit), One({"."}), Plus(Digit)>>)]
\* detect "\d+\.", version "\d+\.\d+"
RecCache ==
    [ApplicationName |-> AppCache,
     DetectionRegex |-> Src(<<Plus(Digit), One({"."})>>),
     VersionRegex |-> Src(<<Plus(Digit), One({"."}), Plus(Digit)>>)]
RecBadDetect ==
    [ApplicationName |-> AppBadD, DetectionRegex |-> BadSrc,
     VersionRegex |-> Src(<<Plus(Digit)>>)]
RecBadVersion ==
    [ApplicationName |-> AppBadV, DetectionRegex |-> Src(<<One({"r"})>>),
     VersionRegex |-> BadSrc]

RuleRecords == {RecRedis, RecCache, RecBadDetect, RecBadVersion}

RECURSIVE SeqsUpTo(_, _)
SeqsUpTo(S, n) ==
    IF n = 0 THEN {<<>>}
    ELSE LET prev == SeqsUpTo(S, n - 1)
         IN prev \cup {Append(q, x) : q \in {r \in prev : Len(r) = n - 1}, x \in S}

\* the rules file as os.ReadFile and yaml.Unmarshal see it
RuleFiles ==
    {[readable |-> FALSE, parseable |-> FALSE, docker |-> <<>>],
     [readable |-> TRUE, parseable |-> FALSE, docker |-> <<>>]}
    \cup {[readable |-> TRUE, parseable |-> TRUE, docker |-> d] :
             d \in SeqsUpTo(RuleRecords, MaxRules)}

NoFile == [readable |-> FALSE, parseable |-> FALSE, docker |-> <<>>]
NoErr == [kind |-> "none", app |-> <<>>]

\* regexp.Compile
Compile(src) == [err |-> ~src.valid, re |-> src.pat]

\* on a regex error the rules compiled so far are returned with the error
RECURSIVE LoadLoop_Prefix(_, _, _)
LoadLoop_Prefix(recs, i, rs) ==
    IF i > Len(recs) THEN [rules |-> rs, err |-> NoErr]
    ELSE LET r == recs[i]
             d == Compile(r.DetectionRegex)
             v == Compile(r.VersionRegex)
         IN IF d.err
            THEN [rules |-> rs, err |-> [kind |-> "detection", app |-> r.ApplicationName]]
            ELSE IF v.err
            THEN [rules |-> rs, err |-> [kind |-> "version", app |-> r.ApplicationName]]
            ELSE LoadLoop_Prefix(recs, i + 1,
                          Append(rs, [ApplicationName |-> r.ApplicationName,
                                      DetectionRegex |-> d.re,
                                      VersionRegex |-> v.re]))

\* the loop of LoadRules over rf.DockerImages from record i on
RECURSIVE LoadLoop(_, _, _)
LoadLoop(recs, i, rs) ==
    IF i > Len(recs) THEN [rules |-> rs, err |-> NoErr]
    ELSE LET r == recs[i]
             d == Compile(r.DetectionRegex)
             v == Compile(r.VersionRegex)
         IN IF d.err
            THEN [rules |-> <<>>, err |-> [kind |-> "detection", app |-> r.ApplicationName]]
            ELSE IF v.err
            THEN [rules |-> <<>>, err |-> [kind |-> "version", app |-> r.ApplicationName]]
            ELSE LoadLoop(recs, i + 1,
                          Append(rs, [ApplicationName |-> r.ApplicationName,
                                      DetectionRegex |-> d.re,
                                      VersionRegex |-> v.re]))

LoadRules(file) ==
    IF ~file.readable THEN [rules |-> <<>>, err |-> [kind |-> "read", app |-> <<>>]]
    ELSE IF ~file.parseable THEN [rules |-> <<>>, err |-> [kind |-> "parse", app |-> <<>>]]
    ELSE LoadLoop(file.docker, 1, <<>>)

\* ------------------------------------------------------------ the cluster
ImgRedis724 == <<"r", ":", "7", ".", "2", ".", "4">>
ImgRedis61 == <<"r", ":", "6", ".", "1">>
ImgApp == <<"a", ":", "1">>

PodRedis == [Containers |-> <<ImgRedis724>>, InitContainers |-> <<ImgRedis724>>]
PodCache == [Containers |-> <<ImgRedis61>>, InitContainers |-> <<ImgApp>>]
PodApp == [Containers |-> <<ImgApp>>, InitContainers |-> <<>>]

\* what a List call of one workload kind can return for a namespace
WorkloadLists == {<<>>, <<PodRedis>>, <<PodRedis, PodCache>>, <<PodApp>>}

Namespaces == {"ns1", "ns2"}
NamespaceLists == {<<>>, <<"ns1">>, <<"ns1", "ns2">>}

\* ------------------------------------------------------------------- state
VARIABLES
    pc,              \* position of main
    rules,           \* result of LoadRules
    rulesErr,        \* error of LoadRules
    rulesFile,       \* the rules document LoadRules was given
    nsItems,         \* namespaces.Items
    nsIdx,           \* index of the namespace being collected
    acc,             \* CollectNamespaceImages: ns -> set of images
    queries,         \* calls issued to the Workload Source, in order
    referenced,      \* ns -> images of the pod specs the Workload Source returned
    imagesByNs,      \* result of CollectNamespaceImages: ns -> list of images
    todoNs,          \* namespaces of imagesByNs not yet ranged over
    curNs,           \* ns of the outer loop
    imgIdx,          \* index of img in imagesByNs[curNs]
    ruleIdx,         \* index of rule in rules
    uniqImagesByNs,  \* ns -> (application name -> version)
    matchedLog,      \* the "Matched img -> app" log lines, as (ns, img, rule index)
    output,          \* the ClusterInfo, once built
    puts,            \* PUT requests attempted by sendDataToAPI
    sendLog,         \* what sendDataToAPI logged
    imageVer,        \* argument of a stand-alone normalizeSemVer call
    semver,          \* its result
    semver2,         \* the result of normalizing that result again
    npc              \* position of the stand-alone normalization

collectVars == <<nsItems, nsIdx, acc, queries, referenced, imagesByNs>>
matchVars == <<todoNs, curNs, imgIdx, ruleIdx, uniqImagesByNs, matchedLog>>
sendVars == <<output, puts, sendLog>>
mainVars == <<pc, rules, rulesErr, rulesFile, nsItems, nsIdx, acc, queries, referenced,
              imagesByNs, todoNs, curNs, imgIdx, ruleIdx, uniqImagesByNs,
              matchedLog, output, puts, sendLog>>
normVars == <<imageVer, semver, semver2, npc>>
vars == <<mainVars, normVars>>

EmptyMap == [x \in {} |-> {}]
NoOutput == [built |-> FALSE, ClusterName |-> "", KubeVersion |-> "",
             HelmCharts |-> EmptyBag]
NoSemver == [v |-> <<>>, ok |-> FALSE]

MainInit ==
    /\ pc = "start"
    /\ rules = <<>>
    /\ rulesErr = NoErr
    /\ rulesFile = NoFile
    /\ nsItems = <<>>
    /\ nsIdx = 0
    /\ acc = EmptyMap
    /\ queries = <<>>
    /\ referenced = EmptyMap
    /\ imagesByNs = EmptyMap
    /\ todoNs = {}
    /\ curNs = ""
    /\ imgIdx = 0
    /\ ruleIdx = 0
    /\ uniqImagesByNs = EmptyMap
    /\ matchedLog = {}
    /\ output = NoOutput
    /\ puts = 0
    /\ sendLog = "none"

NormIdle ==
    /\ imageVer = <<>>
    /\ semver = NoSemver
    /\ semver2 = NoSemver
    /\ npc = "idle"

Init == MainInit /\ NormIdle

\* ------------------------------------------------------------------ main
\* rest.InClusterConfig, kubernetes.NewForConfig
CreateClient ==
    /\ pc = "start"
    /\ \E ok \in BOOLEAN : pc' = IF ok THEN "load" ELSE "fatalClient"
    /\ UNCHANGED <<rules, rulesErr, rulesFile, collectVars, matchVars, sendVars, normVars>>

\* rules, err := rules.LoadRules(...); log.Fatalf on err
LoadRulesStep ==
    /\ pc = "load"
    /\ \E file \in RuleFiles :
          LET r == LoadRules(file)
          IN /\ rulesFile' = file
             /\ rules' = r.rules
             /\ rulesErr' = r.err
             /\ pc' = IF r.err.kind = "none" THEN "listNs" ELSE "fatal"
    /\ UNCHANGED <<collectVars, matchVars, sendVars, normVars>>

\* ------------------------------------------------- CollectNamespaceImages
Query(kind, ns, failed) == [kind |-> kind, ns |-> ns, failed |-> failed]

\* map assignment m[k] = v
Put(m, k, v) == [x \in DOMAIN m \cup {k} |-> IF x = k THEN v ELSE m[x]]

\* client.CoreV1().Namespaces().List
ListNamespaces ==
    /\ pc = "listNs"
    /\ \E failed \in BOOLEAN, items \in NamespaceLists :
          /\ queries' = Append(queries, Query("Namespaces", "", failed))
          /\ IF failed
             THEN /\ pc' = "fatal"
                  /\ UNCHANGED <<nsItems, nsIdx>>
             ELSE /\ nsItems' = items
                  /\ nsIdx' = 1
                  /\ pc' = IF Len(items) = 0 THEN "normalize" ELSE "Deployments"
    /\ UNCHANGED <<rules, rulesErr, rulesFile, acc, referenced, imagesByNs, matchVars,
                   sendVars, normVars>>

\* for _, c := range list { acc[ns][c.Image] = 1 }
RECURSIVE AddImages(_, _, _)
AddImages(list, i, set) ==
    IF i > Len(list) THEN set
    ELSE AddImages(list, i + 1, set \cup {list[i]})

\* one image set shared by all namespaces
collectImages_Global(spec, ns, a) ==
    [x \in DOMAIN a |-> AddImages(spec.InitContainers, 1,
                                  AddImages(spec.Containers, 1, a[x]))]

collectImages(spec, ns, a) ==
    Put(a, ns, AddImages(spec.InitContainers, 1,
                         AddImages(spec.Containers, 1, a[ns])))

\* for _, d := range items { collectImages(d.Spec.Template.Spec, ns, acc) }
RECURSIVE CollectItems(_, _, _, _)
CollectItems(items, i, ns, a) ==
    IF i > Len(items) THEN a
    ELSE CollectItems(items, i + 1, ns, collectImages(items[i], ns, a))

\* the images a list of pod specs refers to
ImagesOf(items) ==
    UNION {{items[i].Containers[j] : j \in DOMAIN items[i].Containers}
           \cup {items[i].InitContainers[j] : j \in DOMAIN items[i].InitContainers}
           : i \in DOMAIN items}

NextKind(kind) ==
    CASE kind = "Deployments" -> "StatefulSets"
      [] kind = "StatefulSets" -> "DaemonSets"
      [] OTHER -> "DaemonSets"

\* the error of the List call is dropped and the loop goes on
CollectFrom_IgnoreError(kind) ==
    /\ pc = kind
    /\ LET ns == nsItems[nsIdx]
           a0 == IF ns \in DOMAIN acc THEN acc ELSE Put(acc, ns, {})
           r0 == IF ns \in DOMAIN referenced THEN referenced ELSE Put(referenced, ns, {})
       IN \E failed \in BOOLEAN, items \in WorkloadLists :
             /\ queries' = Append(queries, Query(kind, ns, failed))
             /\ acc' = IF failed THEN a0 ELSE CollectItems(items, 1, ns, a0)
             /\ referenced' = IF failed THEN r0
                              ELSE Put(r0, ns, r0[ns] \cup ImagesOf(items))
             /\ IF kind = "DaemonSets"
                THEN /\ nsIdx' = nsIdx + 1
                     /\ pc' = IF nsIdx = Len(nsItems) THEN "normalize"
                              ELSE "Deployments"
                ELSE /\ nsIdx' = nsIdx
                     /\ pc' = NextKind(kind)
    /\ UNCHANGED <<rules, rulesErr, rulesFile, nsItems, imagesByNs, matchVars,
                   sendVars, normVars>>

\* one collectFromX call of the loop over namespaces.Items; the first of an
\* iteration also creates acc[nsName]
CollectFrom(kind) ==
    /\ pc = kind
    /\ LET ns == nsItems[nsIdx]
           a0 == IF ns \in DOMAIN acc THEN acc ELSE Put(acc, ns, {})
           r0 == IF ns \in DOMAIN referenced THEN referenced ELSE Put(referenced, ns, {})
       IN \E failed \in BOOLEAN, items \in WorkloadLists :
             /\ queries' = Append(queries, Query(kind, ns, failed))
             /\ IF failed
                THEN /\ pc' = "fatal"
                     /\ acc' = a0
                     /\ referenced' = r0
                     /\ UNCHANGED nsIdx
                ELSE /\ acc' = CollectItems(items, 1, ns, a0)
                     /\ referenced' = Put(r0, ns, r0[ns] \cup ImagesOf(items))
                     /\ IF kind = "DaemonSets"
                        THEN /\ nsIdx' = nsIdx + 1
                             /\ pc' = IF nsIdx = Len(nsItems) THEN "normalize"
                                      ELSE "Deployments"
                        ELSE /\ nsIdx' = nsIdx
                             /\ pc' = NextKind(kind)
    /\ UNCHANGED <<rules, rulesErr, rulesFile, nsItems, imagesByNs, matchVars, sendVars,
                   normVars>>

CollectFromDeployments == CollectFrom("Deployments")
CollectFromStatefulSets == CollectFrom("StatefulSets")
CollectFromDaemonSets == CollectFrom("DaemonSets")

\* the orders in which ranging over a map with key set S can yield the keys
RECURSIVE Orders(_)
Orders(S) ==
    IF S = {} THEN {<<>>}
    ELSE UNION {{<<x>> \o q : q \in Orders(S \ {x})} : x \in S}

\* the images of a namespace always come out in one fixed order
Results_Fixed(a) ==
    LET D == {ns \in DOMAIN a : a[ns] # {}}
    IN {[ns \in D |-> CHOOSE q \in Orders(a[ns]) : TRUE]}

\* the results the final loop of CollectNamespaceImages can build from a
Results(a) ==
    LET D == {ns \in DOMAIN a : a[ns] # {}}
    IN {f \in [D -> UNION {Orders(a[ns]) : ns \in D}] :
           \A ns \in D : f[ns] \in Orders(a[ns])}

\* normalize acc to the result and return it to main
ReturnImages ==
    /\ pc = "normalize"
    /\ imagesByNs' \in Results(acc)
    /\ todoNs' = DOMAIN imagesByNs'
    /\ pc' = "range"
    /\ UNCHANGED <<rules, rulesErr, rulesFile, nsItems, nsIdx, acc, queries, referenced,
                   curNs, imgIdx, ruleIdx, uniqImagesByNs, matchedLog,
                   sendVars, normVars>>

\* ------------------------------------------------------ the matching pass
\* the rules are read again at the start of every namespace
RangeNamespace_Reload ==
    /\ pc = "range"
    /\ todoNs # {}
    /\ \E ns \in todoNs :
          /\ curNs' = ns
          /\ todoNs' = todoNs \ {ns}
    /\ \E file \in RuleFiles :
          /\ rulesFile' = file
          /\ rules' = LoadRules(file).rules
    /\ imgIdx' = 1
    /\ ruleIdx' = 1
    /\ pc' = IF Len(rules') = 0 THEN "range" ELSE "match"
    /\ UNCHANGED <<rulesErr, collectVars, uniqImagesByNs, matchedLog,
                   sendVars, normVars>>

\* for ns, images := range imagesByNs: the next namespace, in any order
RangeNamespace ==
    /\ pc = "range"
    /\ todoNs # {}
    /\ \E ns \in todoNs :
          /\ curNs' = ns
          /\ todoNs' = todoNs \ {ns}
    /\ imgIdx' = 1
    /\ ruleIdx' = 1
    /\ pc' = IF Len(rules) = 0 THEN "range" ELSE "match"
    /\ UNCHANGED <<rules, rulesErr, rulesFile, collectVars, uniqImagesByNs, matchedLog,
                   sendVars, normVars>>

\* a match without a version is recorded with a default version
ApplyRule_Default(uniq, ns, rule, img) ==
    IF MatchString(rule.DetectionRegex, img)
    THEN LET r == normalizeSemVer(FindString(rule.VersionRegex, img))
             m == IF ns \in DOMAIN uniq THEN uniq[ns] ELSE EmptyMap
         IN Put(uniq, ns, Put(m, rule.ApplicationName,
                              IF r.ok THEN r.v ELSE <<"0", ".", "0", ".", "0">>))
    ELSE uniq

\* a version already recorded for the application is kept
ApplyRule_KeepFirst(uniq, ns, rule, img) ==
    IF MatchString(rule.DetectionRegex, img)
    THEN LET r == normalizeSemVer(FindString(rule.VersionRegex, img))
             m == IF ns \in DOMAIN uniq THEN uniq[ns] ELSE EmptyMap
         IN IF r.ok /\ rule.ApplicationName \notin DOMAIN m
            THEN Put(uniq, ns, Put(m, rule.ApplicationName, r.v))
            ELSE uniq
    ELSE uniq

\* the body of "for _, rule := range rules" for one image and one rule
ApplyRule(uniq, ns, rule, img) ==
    IF MatchString(rule.DetectionRegex, img)
    THEN LET r == normalizeSemVer(FindString(rule.VersionRegex, img))
         IN IF r.ok
            THEN LET m == IF ns \in DOMAIN uniq THEN uniq[ns] ELSE EmptyMap
                 IN Put(uniq, ns, Put(m, rule.ApplicationName, r.v))
            ELSE uniq
    ELSE uniq

\* one iteration of the rule loop; there is no break after a match
MatchRule ==
    /\ pc = "match"
    /\ LET img == imagesByNs[curNs][imgIdx]
           rule == rules[ruleIdx]
       IN /\ uniqImagesByNs' = ApplyRule(uniqImagesByNs, curNs, rule, img)
          /\ matchedLog' = IF MatchString(rule.DetectionRegex, img)
                           THEN matchedLog \cup {<<curNs, img, ruleIdx>>}
                           ELSE matchedLog
    /\ IF ruleIdx < Len(rules)
       THEN /\ ruleIdx' = ruleIdx + 1
            /\ UNCHANGED <<imgIdx, pc>>
       ELSE /\ ruleIdx' = 1
            /\ imgIdx' = imgIdx + 1
            /\ pc' = IF imgIdx < Len(imagesByNs[curNs]) THEN "match" ELSE "range"
    /\ UNCHANGED <<rules, rulesErr, rulesFile, collectVars, todoNs, curNs, sendVars, normVars>>

\* ---------------------------------------------------------------- report
Pairs(uniq) == UNION {{<<ns, k>> : k \in DOMAIN uniq[ns]} : ns \in DOMAIN uniq}

\* for v, i := range versionedImage: v is the key, i the value
ChartInfo(uniq, ns, v) ==
    LET i == uniq[ns][v]
    IN [ChartName |-> i, Version |-> v, Namespace |-> ns]

\* imagesInstalled, up to the order of the appends
HelmChartsOf(uniq) ==
    LET ps == Pairs(uniq)
        es == {ChartInfo(uniq, p[1], p[2]) : p \in ps}
    IN [e \in es |-> Cardinality({p \in ps : ChartInfo(uniq, p[1], p[2]) = e})]

ClusterNames == {"minikube", "prod"}
KubeVersions == {"unknown-version", "v1.30.0"}

\* the loops over uniqImagesByNs, getClusterName, getKubernetesVersion, output
BuildReport ==
    /\ pc = "range"
    /\ todoNs = {}
    /\ \E cn \in ClusterNames, kv \in KubeVersions :
          output' = [built |-> TRUE, ClusterName |-> cn, KubeVersion |-> kv,
                     HelmCharts |-> HelmChartsOf(uniqImagesByNs)]
    /\ pc' = "send"
    /\ UNCHANGED <<rules, rulesErr, rulesFile, collectVars, matchVars, puts, sendLog, normVars>>

\* ----------------------------------------------------------- sendDataToAPI
SendDone(log, attempted) ==
    /\ pc = "send"
    /\ sendLog' = log
    /\ puts' = puts + attempted
    /\ pc' = "done"
    /\ UNCHANGED <<rules, rulesErr, rulesFile, collectVars, matchVars, output, normVars>>

\* a failed client.Do is tried a second time
SendTransportError_Retry == SendDone("transport-error", 2)

\* apiURL == "" || apiToken == ""
SendSkipped == SendDone("skipped", 0)
\* http.NewRequest fails
SendRequestError == SendDone("request-error", 0)
\* client.Do fails
SendTransportError == SendDone("transport-error", 1)

StatusCodes == {200, 204, 301, 404, 500}

SendResponse ==
    \E status \in StatusCodes :
        SendDone(IF status >= 200 /\ status < 300 THEN "sent" ELSE "status-failed", 1)

Next ==
    \/ CreateClient
    \/ LoadRulesStep
    \/ ListNamespaces
    \/ CollectFromDeployments
    \/ CollectFromStatefulSets
    \/ CollectFromDaemonSets
    \/ ReturnImages
    \/ RangeNamespace
    \/ MatchRule
    \/ BuildReport
    \/ SendSkipped
    \/ SendRequestError
    \/ SendTransportError
    \/ SendResponse

Spec == Init /\ [][Next]_vars

\* ------------------------------------- normalizeSemVer on arbitrary input
RawAlphabet == {"0", "1", ".", "a"}
RawStrings == SeqsUpTo(RawAlphabet, MaxRawLen)

NormInit ==
    /\ MainInit
    /\ imageVer \in RawStrings
    /\ semver = NoSemver
    /\ semver2 = NoSemver
    /\ npc = "call"

Normalize ==
    /\ npc = "call"
    /\ semver' = normalizeSemVer(imageVer)
    /\ npc' = "once"
    /\ UNCHANGED <<mainVars, imageVer, semver2>>

NormalizeAgain ==
    /\ npc = "once"
    /\ semver.ok
    /\ semver2' = normalizeSemVer(semver.v)
    /\ npc' = "twice"
    /\ UNCHANGED <<mainVars, imageVer, semver>>

NormNext ==
    \/ Normalize
    \/ NormalizeAgain

SpecNorm == NormInit /\ [][NormNext]_vars

\* ====================================================== properties checked
\* --- the <digits>.<digits>(.<digits>)? occurrences of a string, stated
\* --- position by position
IsOcc(s, i) ==
    /\ i >= 1
    /\ i + 2 <= Len(s)
    /\ s[i] \in Digit
    /\ s[i + 1] = "."
    /\ s[i + 2] \in Digit

HasOcc(s) == \E i \in 1..Len(s) : IsOcc(s, i)

AllDigits(s, a, b) == \A k \in a..b : s[k] \in Digit

\* the maximal run of digits that begins at a ends at b
RunEndsAt(s, a, b) ==
    /\ a <= b
    /\ b <= Len(s)
    /\ AllDigits(s, a, b)
    /\ (b = Len(s) \/ s[b + 1] \notin Digit)

\* the maximal run of digits that ends at b begins at a
RunBeginsAt(s, a, b) ==
    /\ 1 <= a
    /\ a <= b
    /\ AllDigits(s, a, b)
    /\ (a = 1 \/ s[a - 1] \notin Digit)

\* major.minor.patch of the leftmost occurrence, patch 0 when there is none
ExpectedSemVer(s) ==
    LET i0 == CHOOSE i \in 1..Len(s) : IsOcc(s, i) /\ \A j \in 1..(i - 1) : ~IsOcc(s, j)
        a == CHOOSE x \in 1..i0 : RunBeginsAt(s, x, i0)
        b == CHOOSE x \in (i0 + 2)..Len(s) : RunEndsAt(s, i0 + 2, x)
        hasPatch == b + 2 <= Len(s) /\ s[b + 1] = "." /\ s[b + 2] \in Digit
        c == CHOOSE x \in (b + 2)..Len(s) : RunEndsAt(s, b + 2, x)
    IN SubSeq(s, a, i0) \o <<".">> \o SubSeq(s, i0 + 2, b) \o <<".">>
          \o (IF hasPatch THEN SubSeq(s, b + 2, c) ELSE <<"0">>)

\* C5: normalizeSemVer is absent exactly on the strings without a
\* <digits>.<digits> occurrence; otherwise its result is major.minor.patch of
\* the leftmost occurrence, the digits copied, patch 0 when the source has none,
\* everything around the occurrence dropped.
C5_NormalizeSemVer ==
    npc # "call" =>
        /\ semver.ok <=> HasOcc(imageVer)
        /\ semver.ok => semver.v = ExpectedSemVer(imageVer)
        /\ ~semver.ok => semver.v = <<>>

C5_Witness ==
    /\ npc = "once"
    /\ imageVer = <<"a", "1", ".", "1", "0", "a">>
    /\ semver = [v |-> <<"1", ".", "1", "0", ".", "0">>, ok |-> TRUE]

\* C6: normalizing the result of a successful normalization succeeds and
\* returns the same string.
C6_Idempotent ==
    npc = "twice" => semver2.ok /\ semver2.v = semver.v

C6_Witness ==
    /\ npc = "twice"
    /\ imageVer = <<"a", "0", "1", ".", "1">>
    /\ semver2 = [v |-> <<"0", "1", ".", "1", ".", "0">>, ok |-> TRUE]

\* --- what the images of a namespace and the rules determine
ImagesIn(ns) ==
    IF ns \in DOMAIN imagesByNs
    THEN {imagesByNs[ns][i] : i \in DOMAIN imagesByNs[ns]}
    ELSE {}

Detected(j, img) == MatchString(rules[j].DetectionRegex, img)

RawVersion(j, img) == FindString(rules[j].VersionRegex, img)

\* rule j matches img and the version it extracts can be normalized
Resolved(j, img) == Detected(j, img) /\ HasOcc(RawVersion(j, img))

AppNames == {rules[j].ApplicationName : j \in DOMAIN rules}

\* some image of ns matches a rule of application app with a resolved version
ResolvedPair(ns, app) ==
    \E img \in ImagesIn(ns), j \in DOMAIN rules :
        rules[j].ApplicationName = app /\ Resolved(j, img)

Components == BagToSet(output.HelmCharts)

\* C1: a rule is applied to an image only if no rule declared before it
\* matches that image (first match wins).
C1_FirstMatchWins ==
    \A e \in matchedLog :
        \A i \in 1..(e[3] - 1) : ~Detected(i, e[2])

\* C2: every component of the report has chart_name = the application name of
\* a rule, version = the normalized version that rule extracts from an image of
\* the component's namespace, namespace = that namespace.
C2_ComponentFields ==
    output.built =>
        \A e \in Components :
            \E img \in ImagesIn(e.Namespace), j \in DOMAIN rules :
                /\ Resolved(j, img)
                /\ e.ChartName = rules[j].ApplicationName
                /\ e.Version = ExpectedSemVer(RawVersion(j, img))

\* C3: the report has exactly one component for each (namespace, application)
\* with a resolved match, and no other component.
C3_OnePerPair ==
    output.built =>
        /\ \A ns \in Namespaces, app \in AppNames :
              LET n == Cardinality({e \in Components :
                                       e.Namespace = ns /\ e.ChartName = app})
                  copies == {output.HelmCharts[e] : e \in {x \in Components :
                                       x.Namespace = ns /\ x.ChartName = app}}
              IN IF ResolvedPair(ns, app)
                 THEN n = 1 /\ copies = {1}
                 ELSE n = 0
        /\ \A e \in Components :
              e.Namespace \in Namespaces /\ e.ChartName \in AppNames

\* --- C4
\* the rule and image of the iteration about to run match, without a version
AbsentVersionStep ==
    /\ pc = "match"
    /\ Detected(ruleIdx, imagesByNs[curNs][imgIdx])
    /\ ~HasOcc(RawVersion(ruleIdx, imagesByNs[curNs][imgIdx]))

\* every version recorded for (ns, app) is the normalized version of an image
\* of ns that a rule of app resolves
RecordedAreResolved ==
    \A ns \in DOMAIN uniqImagesByNs : \A app \in DOMAIN uniqImagesByNs[ns] :
        \E img \in ImagesIn(ns), j \in DOMAIN rules :
            /\ rules[j].ApplicationName = app
            /\ Resolved(j, img)
            /\ uniqImagesByNs[ns][app] = ExpectedSemVer(RawVersion(j, img))

\* the report has one entry per recorded (ns, app), each carrying a recorded
\* version of its namespace, so none for a match without a version
ReportOnlyResolved ==
    output.built =>
        /\ BagCardinality(output.HelmCharts)
              = Cardinality({p \in Namespaces \X AppNames : ResolvedPair(p[1], p[2])})
        /\ \A e \in Components :
              \E img \in ImagesIn(e.Namespace), j \in DOMAIN rules :
                  /\ Resolved(j, img)
                  /\ ExpectedSemVer(RawVersion(j, img)) \in {e.ChartName, e.Version}
              /\ e.ChartName # <<>>
              /\ e.Version # <<>>

Collected == pc \in {"range", "match", "send", "done"}

Occurrences(list, x) == Cardinality({i \in DOMAIN list : list[i] = x})

ListOf(ns) == IF ns \in DOMAIN imagesByNs THEN imagesByNs[ns] ELSE <<>>

\* C7: on success the list of each namespace holds every image its workloads
\* refer to exactly once and nothing else; lists exist only for listed namespaces.
C7_CollectedOnce ==
    Collected =>
        /\ DOMAIN imagesByNs \subseteq {nsItems[i] : i \in DOMAIN nsItems}
        /\ \A i \in DOMAIN nsItems :
              LET ns == nsItems[i]
              IN /\ \A img \in referenced[ns] : Occurrences(ListOf(ns), img) = 1
                 /\ \A k \in DOMAIN ListOf(ns) : ListOf(ns)[k] \in referenced[ns]

C7_Witness ==
    /\ pc = "range"
    /\ nsItems = <<"ns1", "ns2">>
    /\ referenced["ns1"] = {ImgRedis724}
    /\ referenced["ns2"] = {ImgRedis724, ImgRedis61, ImgApp}
    /\ Len(imagesByNs["ns1"]) = 1
    /\ Len(imagesByNs["ns2"]) = 3

\* C8: when a call to the Workload Source fails it is the last call issued, the
\* run is aborted, no images are returned, nothing is matched and no report is
\* built or sent.
C8_SourceFailureFatal ==
    \A i \in DOMAIN queries :
        queries[i].failed =>
            /\ i = Len(queries)
            /\ pc = "fatal"
            /\ imagesByNs = EmptyMap
            /\ matchedLog = {}
            /\ uniqImagesByNs = EmptyMap
            /\ ~output.built
            /\ puts = 0
            /\ sendLog = "none"

C8_Witness ==
    /\ pc = "fatal"
    /\ Len(queries) = 6
    /\ queries[6] = Query("StatefulSets", "ns2", TRUE)
    /\ acc["ns1"] # {}

\* --- C9
BadRecord(r) == ~r.DetectionRegex.valid \/ ~r.VersionRegex.valid

Loaded == pc \notin {"start", "load", "fatalClient"}

\* C9: LoadRules returns an error and no rules when the file is unreadable,
\* unparseable or has a record with a regex that does not compile (the error
\* names the application of the first such record); otherwise one rule per
\* record, in declaration order.
C9_LoadAllOrNothing ==
    Loaded =>
        LET f == rulesFile
            bad == {i \in DOMAIN f.docker : BadRecord(f.docker[i])}
        IN IF ~f.readable \/ ~f.parseable \/ bad # {}
           THEN /\ rulesErr.kind # "none"
                /\ rules = <<>>
                /\ pc = "fatal"
                /\ (f.readable /\ f.parseable) =>
                      /\ rulesErr.kind \in {"detection", "version"}
                      /\ \E i \in bad :
                            /\ \A k \in bad : i <= k
                            /\ rulesErr.app = f.docker[i].ApplicationName
           ELSE /\ rulesErr = NoErr
                /\ Len(rules) = Len(f.docker)
                /\ \A i \in DOMAIN f.docker :
                      /\ rules[i].ApplicationName = f.docker[i].ApplicationName
                      /\ rules[i].DetectionRegex = f.docker[i].DetectionRegex.pat
                      /\ rules[i].VersionRegex = f.docker[i].VersionRegex.pat

C9_Witness ==
    /\ pc = "fatal"
    /\ rulesFile.docker = <<RecRedis, RecBadVersion>>
    /\ rulesErr = [kind |-> "version", app |-> AppBadV]
    /\ rules = <<>>

\* --- C10
DeliveryOnce ==
    /\ puts <= 1
    /\ (sendLog # "none") <=> (pc = "done")
    /\ sendLog \in {"transport-error", "status-failed", "sent"} => puts = 1
    /\ sendLog \in {"none", "skipped", "request-error"} => puts = 0

\* C10: a run that reaches delivery attempts at most one PUT; whatever the
\* outcome, sendDataToAPI returns, the run ends successfully in that step and
\* nothing is attempted afterwards.
C10_DeliveryNonFatal ==
    /\ []DeliveryOnce
    /\ [][pc = "send" => pc' = "done"]_vars
    /\ [][pc # "done"]_vars

C10_Witness ==
    /\ pc = "done"
    /\ sendLog = "status-failed"
    /\ puts = 1
    /\ output.built

\* --- C11
\* LoadRules has returned without error the rules of the document it was given
LoadCompleted ==
    /\ Loaded
    /\ rulesErr = NoErr
    /\ rulesFile.readable
    /\ rulesFile.parseable
    /\ Len(rules) = Len(rulesFile.docker)

\* no call was issued to the Workload Source before the load completed, and a
\* failed load aborted the run before any call
LoadBeforeCollection ==
    /\ queries # <<>> => LoadCompleted
    /\ rulesErr # NoErr => pc = "fatal" /\ queries = <<>>

\* C11: the rules are loaded once, before the first namespace or workload query
\* (a failed load aborts the run with no query issued), and the loaded rules
\* are not modified afterwards.
C11_LoadOnceBeforeCollection ==
    /\ []LoadBeforeCollection
    /\ [][(rules' # rules \/ rulesFile' # rulesFile \/ rulesErr' # rulesErr)
             => (pc = "load" /\ queries = <<>>)]_vars
    /\ [][pc' = "load" => pc = "start"]_vars

C11_Witness ==
    /\ pc = "match"
    /\ Len(queries) = 7
    /\ Len(rules) = 2
    /\ rulesFile.docker = <<RecCache, RecRedis>>
    /\ rules[1].ApplicationName = AppCache
    /\ rules[2].ApplicationName = AppRedis
    /\ imgIdx = 2

\* --- C12
\* the matching pass over the images of ns is over
PassOver(ns) ==
    /\ ns \in DOMAIN imagesByNs
    /\ ns \notin todoNs
    /\ pc = "match" => curNs # ns

\* the (image index, rule index) iterations that write a version for (ns, app)
Writes(ns, app) ==
    {w \in (DOMAIN imagesByNs[ns]) \X (DOMAIN rules) :
        /\ rules[w[2]].ApplicationName = app
        /\ Resolved(w[2], imagesByNs[ns][w[1]])}

\* the one of the iterations W that runs last
Last(W) ==
    CHOOSE w \in W : \A u \in W : u[1] < w[1] \/ (u[1] = w[1] /\ u[2] <= w[2])

VersionOf(ns, w) == ExpectedSemVer(RawVersion(w[2], imagesByNs[ns][w[1]]))

\* after the pass the version of (ns, app) is that of the image processed last
LastWriteWins ==
    \A ns \in Namespaces : PassOver(ns) =>
        \A app \in AppNames :
            LET W == Writes(ns, app)
            IN IF W = {}
               THEN ns \in DOMAIN uniqImagesByNs => app \notin DOMAIN uniqImagesByNs[ns]
               ELSE /\ ns \in DOMAIN uniqImagesByNs
                    /\ app \in DOMAIN uniqImagesByNs[ns]
                    /\ uniqImagesByNs[ns][app] = VersionOf(ns, Last(W))

\* the arrangements of the elements of S in a list
Arrangements(S) ==
    {q \in [1..Cardinality(S) -> S] : \A x \in S : \E i \in DOMAIN q : q[i] = x}

\* for the same collected images a run can go on with any order of the images
\* of a namespace
AnyOrderPossible ==
    pc = "normalize" =>
        \A ns \in DOMAIN acc : \A q \in Arrangements(acc[ns]) :
            acc[ns] # {} => ENABLED (ReturnImages /\ imagesByNs'[ns] = q)

\* C12: once the images of a namespace are processed, the version recorded for
\* (namespace, application) is the one of the image processed last among those
\* that resolve a version for the application; and every order of a namespace's
\* images is a possible run, so runs on the same input can end with different
\* versions.
C12_LastWriteWins == LastWriteWins /\ AnyOrderPossible

\* ns1 holds r:7.2.4 and r:6.1, both resolved by rule cache to different
\* versions; r:6.1 came last and its version is the recorded one
C12_Witness ==
    /\ pc = "done"
    /\ Len(rules) = 1
    /\ rules[1].ApplicationName = AppCache
    /\ "ns1" \in DOMAIN imagesByNs
    /\ imagesByNs["ns1"] = <<ImgRedis724, ImgApp, ImgRedis61>>
    /\ uniqImagesByNs["ns1"][AppCache] = <<"6", ".", "1", ".", "0">>
    /\ VersionOf("ns1", <<1, 1>>) = <<"7", ".", "2", ".", "0">>

\* the same input processed in the other order ends with the other version
C12_OtherOrder ==
    /\ pc = "done"
    /\ Len(rules) = 1
    /\ rules[1].ApplicationName = AppCache
    /\ "ns1" \in DOMAIN imagesByNs
    /\ imagesByNs["ns1"] = <<ImgRedis61, ImgApp, ImgRedis724>>
    /\ uniqImagesByNs["ns1"][AppCache] = <<"7", ".", "2", ".", "0">>

====
